---- MODULE Spec2Model ----
(***************************************************************************)
(* State-diagram model builder (tools/ModelBuilder.py) and the            *)
(* hierarchical graph model it populates (tools/StateModel.py).            *)
(*                                                                         *)
(* Python values are represented as follows.                               *)
(*   - a string value is a pair <<text, isByteString>>: Python 2 compares  *)
(*     and hashes 'S' and u'S' alike, but isinstance tells them apart;     *)
(*   - None is the empty tuple;                                            *)
(*   - a State object is its index in the object table obj (allocation     *)
(*     order), so object identity is index equality;                       *)
(*   - a Transition object is its index in the root transitions list;      *)
(*   - a networkx DiGraph is a node set and an edge map from <<u, v>> to   *)
(*     the index of the Transition stored as the edge's 'trans' datum      *)
(*     (0 when the edge carries no datum);                                 *)
(*   - an operation that may raise returns a record whose err field names  *)
(*     the exception ("" when it returns normally) together with the       *)
(*     state as mutated up to the raise.                                   *)
(***************************************************************************)
EXTENDS Integers, Sequences, FiniteSets, TLC

VARIABLES
    action_tokens,      \* StateModelBuilder.action_tokens (class attribute)
    q,                  \* q[b]: builder b's token deque
    superstate_stack,   \* superstate_stack[b]
    diagram,            \* diagram[b]: the root StateDiagram (b.model)
    obj,                \* obj[b]: the State objects reachable from diagram[b]
    pc,                 \* pc[b]: where builder b's parse call stands
    actions_pending,    \* actions_pending[b]: local of parse
    raised,             \* raised[b]: exception that left the last call, or ""
    fed,                \* inputs consumed so far: tokens buffered, calls made
    flat,               \* result of the last flatten_graph call
    called              \* the call made by the latest step, if it made one

vars == <<action_tokens, q, superstate_stack, diagram, obj, pc,
          actions_pending, raised, fed, flat, called>>

----------------------------------------------------------------------------
(* Bounds of the exploration *)

MaxTokens == 5
MaxScopeTokens == 6
MaxStates == 4
MaxTrans == 2
MaxAttrs == 1
MaxCalls == 3
MaxFlattens == 2

Builders == {1, 2}

----------------------------------------------------------------------------
(* Python values *)

None == <<>>
U(t) == <<t, FALSE>>
B(t) == <<t, TRUE>>
Text(v) == v[1]
IsStr(v) == v # None /\ v[2]
IsUnicode(v) == v # None /\ ~v[2]
Truthy(v) == v # None

EmptyMap == [x \in {} |-> 0]
MapPut(f, k, v) == [x \in DOMAIN f \cup {k} |-> IF x = k THEN v ELSE f[x]]
Range(s) == {s[i] : i \in DOMAIN s}
Last(s) == s[Len(s)]
Front(s) == SubSeq(s, 1, Len(s) - 1)

----------------------------------------------------------------------------
(* networkx.DiGraph (1.x API, as used by the code) *)

DiGraph == [node |-> {}, edge |-> EmptyMap]

add_node(g, n) == [g EXCEPT !.node = @ \cup {n}]

\* add_edge(u, v, attr_dict): adds missing endpoints; the datum is updated
\* only when one is given (t # 0)
add_edge(g, u, v, t) ==
    [g EXCEPT !.node = @ \cup {u, v},
              !.edge = IF <<u, v>> \in DOMAIN @ /\ t = 0 THEN @
                       ELSE MapPut(@, <<u, v>>, t)]

\* add_edges_from(ebunch) with ebunch a set of data-less pairs
add_edges_from(g, es) ==
    [g EXCEPT !.node = @ \cup {e[1] : e \in es} \cup {e[2] : e \in es},
              !.edge = [e \in DOMAIN @ \cup es |->
                           IF e \in DOMAIN @ THEN @[e] ELSE 0]]

remove_node(g, n) ==
    [g EXCEPT !.node = @ \ {n},
              !.edge = [e \in {x \in DOMAIN @ : x[1] # n /\ x[2] # n} |-> @[e]]]

\* subgraph(nbunch): a new graph on the nodes of nbunch that are in g and
\* the edges of g between them
subgraph(g, nbunch) ==
    LET ns == g.node \cap nbunch IN
    [node |-> ns,
     edge |-> [e \in {x \in DOMAIN g.edge : x[1] \in ns /\ x[2] \in ns} |-> g.edge[e]]]

----------------------------------------------------------------------------
(* StateModel.py: StateDiagram, State, Transition *)

StateDiagram ==
    [top_level |-> <<>>, state_names |-> EmptyMap, transitions |-> <<>>,
     node |-> {}, edge |-> EmptyMap]

State(name, parent_state) ==
    [name |-> name, attrs |-> <<>>, substates |-> StateDiagram,
     num_substates |-> 0, active |-> FALSE, source |-> <<>>,
     destination |-> <<>>, parent |-> parent_state]

Transition(source, dest) == [attrs |-> <<>>, source |-> <<source>>, dest |-> <<dest>>]

\* a world is the root diagram together with the State objects
World(d, o) == [dg |-> d, obj |-> o]
Ok(w) == [w |-> w, err |-> ""]
Raise(w, e) == [w |-> w, err |-> e]

\* State.add_attribute
add_attribute(w, s, attribute) ==
    [w EXCEPT !.obj[s].attrs = Append(@, attribute)]

\* State.add_substate
add_substate(w, p, s) ==
    [w EXCEPT !.obj[p].substates.node = @ \cup {s},
              !.obj[p].substates.top_level = Append(@, s),
              !.obj[p].num_substates = @ + 1]

\* State.add_source / State.add_destination
add_source(w, s, source) == [w EXCEPT !.obj[s].source = Append(@, source)]
add_destination(w, s, destination) ==
    [w EXCEPT !.obj[s].destination = Append(@, destination)]

\* StateDiagram.get_state for a name argument: the State, or 0 for NameError
get_state(w, state_id) ==
    IF Text(state_id) \in DOMAIN w.dg.state_names
    THEN w.dg.state_names[Text(state_id)] ELSE 0

\* a check_state_exists that never finds a state
check_state_exists_never(w, state_id) == FALSE

\* StateDiagram.check_state_exists: `or` binds looser than `and`, and a
\* string is never a node of the graph (nodes are State objects)
check_state_exists(w, state_id) ==
    IF IsStr(state_id) \/ (IsUnicode(state_id)
                           /\ Text(state_id) \in DOMAIN w.dg.state_names)
    THEN TRUE
    ELSE FALSE

\* the else-branch of add_state: a new State is created and registered, then
\* nested under parent_state or appended to the top level
add_state_new(w, state_name, parent_state) ==
    LET id == Len(w.obj) + 1
        w1 == [w EXCEPT !.obj = Append(@, State(state_name, parent_state)),
                        !.dg.state_names = MapPut(@, Text(state_name), id)]
    IN IF Truthy(parent_state)
       THEN IF get_state(w1, parent_state) = 0
            THEN Raise(w1, "NameError")
            ELSE Ok(add_substate(w1, get_state(w1, parent_state), id))
       ELSE Ok([w1 EXCEPT !.dg.node = @ \cup {id},
                          !.dg.top_level = Append(@, id)])

\* lines 68-78 of add_state: the existing State is fetched or a new one made
add_state_get(w, state_name, parent_state) ==
    IF check_state_exists(w, state_name)
    THEN IF get_state(w, state_name) = 0 THEN Raise(w, "NameError") ELSE Ok(w)
    ELSE add_state_new(w, state_name, parent_state)

\* lines 80-81 of add_state, r being the outcome of lines 68-78
add_state_attrs(r, state_name, attrs) ==
    IF r.err # "" \/ ~Truthy(attrs) THEN r
    ELSE Ok(add_attribute(r.w, get_state(r.w, state_name), attrs))

\* StateDiagram.add_state
add_state(w, state_name, parent_state, attrs) ==
    add_state_attrs(add_state_get(w, state_name, parent_state), state_name, attrs)

\* StateDiagram.add_state_attr
add_state_attr(w, state_id, attribute) ==
    IF get_state(w, state_id) = 0 THEN Raise(w, "NameError")
    ELSE Ok(add_attribute(w, get_state(w, state_id), attribute))

\* lines 92-94 of add_transition for one endpoint
ensure_state(w, state) ==
    IF ~check_state_exists(w, state) THEN add_state(w, state, None, None).w ELSE w

\* lines 107-114 of add_transition: the edge goes to parent_state's child
\* graph or to the root graph, then the endpoints' reference lists are linked
link_transition(w, s, d, parent_state, t) ==
    IF Truthy(parent_state) /\ get_state(w, parent_state) = 0
    THEN Raise(w, "NameError")
    ELSE LET w1 == IF Truthy(parent_state)
                   THEN [w EXCEPT !.obj[get_state(w, parent_state)].substates =
                                       add_edge(@, s, d, t)]
                   ELSE [w EXCEPT !.dg = add_edge(@, s, d, t)]
         IN Ok(add_source(add_destination(w1, s, d), d, s))

\* lines 99-105 of add_transition: the Transition joins self.transitions
new_transition(w, s, d, attributes) ==
    [w EXCEPT !.dg.transitions =
        Append(@, IF Truthy(attributes)
                  THEN [Transition(s, d) EXCEPT !.attrs = Append(@, attributes)]
                  ELSE Transition(s, d))]

\* lines 96-114 of add_transition, w1 holding both endpoints if they could
\* be created
add_transition_resolved(w1, src, dst, parent_state, attributes) ==
    IF get_state(w1, src) = 0 \/ get_state(w1, dst) = 0 THEN Raise(w1, "NameError")
    ELSE link_transition(new_transition(w1, get_state(w1, src), get_state(w1, dst),
                                        attributes),
                         get_state(w1, src), get_state(w1, dst), parent_state,
                         Len(w1.dg.transitions) + 1)

\* lines 89-90 of add_transition
canonical(name, sentinel) == IF Text(name) = "[*]" THEN U(sentinel) ELSE name

\* StateDiagram.add_transition
add_transition(w, source, dest, parent_state, attributes) ==
    add_transition_resolved(
        ensure_state(ensure_state(w, canonical(source, "START")),
                     canonical(dest, "END")),
        canonical(source, "START"), canonical(dest, "END"), parent_state, attributes)

\* State.is_start_state() / State.is_end_state() with global_scope=False
is_start_state(st) == Len(st.source) = 0
is_end_state(st) == Len(st.destination) = 0

\* State.is_start_state(global_scope=True) / State.is_end_state(global_scope=
\* True) of (a State with the fields of) st: [val, err].  self.parent is what
\* add_state was given as parent_state, a name: `or` does not look at its
\* right side when the local list is empty, and otherwise .is_start_state /
\* .is_end_state is looked up on a string
is_start_state_global(st) ==
    IF Truthy(st.parent)
    THEN IF Len(st.source) = 0 THEN [val |-> TRUE, err |-> ""]
         ELSE [val |-> FALSE, err |-> "AttributeError"]
    ELSE [val |-> Len(st.source) = 0, err |-> ""]

is_end_state_global(st) ==
    IF Truthy(st.parent)
    THEN IF Len(st.destination) = 0 THEN [val |-> TRUE, err |-> ""]
         ELSE [val |-> FALSE, err |-> "AttributeError"]
    ELSE [val |-> Len(st.destination) = 0, err |-> ""]

----------------------------------------------------------------------------
(* StateDiagram.flatten_graph *)

\* nodes() lists the graph's nodes in dictionary order, which depends on the
\* State objects' hashes (their addresses): any order can occur.  ord is a
\* sequence of State objects fixing that order; the loop body does nothing
\* for a state without substates, so ord needs to list the superstates only.
Visits(g, o, ord) ==
    SelectSeq(ord, LAMBDA s : s \in g.node /\ o[s].num_substates > 0)

\* lines 142-150: stitch the flattened child sub into flat_graph and drop state
collapse(o, flat_graph, state, sub) ==
    LET starts == {<<src, n>> : src \in Range(o[state].source),
                                n \in {x \in sub.node : is_start_state(o[x])}}
        ends == {<<n, dest>> : n \in {x \in sub.node : is_end_state(o[x])},
                               dest \in Range(o[state].destination)}
    IN remove_node(
         add_edges_from(add_edges_from(flat_graph, starts \cup ends),
                        DOMAIN sub.edge),
         state)

RECURSIVE flatten_graph(_, _, _, _)
RECURSIVE flatten_loop(_, _, _, _, _)

\* the for loop of lines 136-150 over the states still to visit
flatten_loop(o, flat_graph, todo, ord, depth) ==
    IF todo = <<>> THEN [g |-> flat_graph, err |-> ""]
    ELSE LET sub == flatten_graph(o, o[Head(todo)].substates, ord, depth + 1)
         IN IF sub.err # "" THEN sub
            ELSE flatten_loop(o, collapse(o, flat_graph, Head(todo), sub.g),
                              Tail(todo), ord, depth)

\* a State can be its own substate (add_state(n, parent_state=n)); the
\* recursion then never ends and Python raises RuntimeError.  A nesting
\* deeper than the number of State objects is such a cycle.
flatten_graph(o, d, ord, depth) ==
    IF depth > Len(o) THEN [g |-> DiGraph, err |-> "RuntimeError"]
    ELSE LET flat_graph == subgraph([node |-> d.node, edge |-> d.edge],
                                    Range(d.top_level))
         IN flatten_loop(o, flat_graph, Visits(flat_graph, o, ord), ord, depth)

Perms(S) == {p \in [1..Cardinality(S) -> S] : \A i, j \in DOMAIN p : i # j => p[i] # p[j]}
Supers(o) == {s \in DOMAIN o : o[s].num_substates > 0}

----------------------------------------------------------------------------------------------------------------------------------------
(* ModelBuilder.py: StateModelBuilder's handlers.  A handler works on the   *)
(* builder it is bound to: bs = [q, stack, w] are that builder's deque,     *)
(* superstate_stack and diagram.                                             *)

Tok(kind, val) == [kind |-> kind, val |-> val]

BState(qq, st, w) == [q |-> qq, stack |-> st, w |-> w]
Done(bs) == [bs |-> bs, err |-> ""]
Fail(bs, e) == [bs |-> bs, err |-> e]

\* diagram.add_state(state_name, parent_state=self.superstate_stack[-1])
\* the builder after a call on its diagram that ended as r
OnDiagram(bs, r) == [bs |-> [bs EXCEPT !.w = r.w], err |-> r.err]

add_state_in_scope(bs, state_name) ==
    IF bs.stack = <<>> THEN Fail(bs, "IndexError")
    ELSE OnDiagram(bs, add_state(bs.w, state_name, Last(bs.stack), None))

\* line 123 of start_superstate, r being the outcome of line 122
push_superstate(r, state_name) ==
    IF r.err # "" THEN r ELSE Done([r.bs EXCEPT !.stack = Append(@, state_name)])

\* StateModelBuilder.start_superstate
start_superstate(bs, state_name) ==
    push_superstate(add_state_in_scope([bs EXCEPT !.q = Tail(@)], state_name),
                    state_name)

\* lines 114-115 of assign_state: the optional attribute, r being the outcome
\* of lines 109-112
assign_state_attr(r, state_name) ==
    IF r.err # "" THEN r
    ELSE IF r.bs.q = <<>> THEN Fail(r.bs, "IndexError")
    ELSE IF Head(r.bs.q).kind = "SATTR"
    THEN OnDiagram([r.bs EXCEPT !.q = Tail(@)],
                   add_state_attr(r.bs.w, state_name, Head(r.bs.q).val))
    ELSE r

\* StateModelBuilder.assign_state
assign_state(bs) ==
    IF bs.q = <<>> THEN Fail(bs, "IndexError")
    ELSE IF Tail(bs.q) = <<>> THEN Fail([bs EXCEPT !.q = Tail(@)], "IndexError")
    ELSE assign_state_attr(
            IF bs.q[2].kind = "SSTART"
            THEN start_superstate([bs EXCEPT !.q = Tail(@)], Head(bs.q).val)
            ELSE add_state_in_scope([bs EXCEPT !.q = Tail(@)], Head(bs.q).val),
            Head(bs.q).val)

\* an end_superstate that leaves the deque and the stack alone
end_superstate_keeps(bs) == Done(bs)

\* StateModelBuilder.end_superstate
end_superstate(bs) ==
    IF bs.q = <<>> THEN Fail(bs, "IndexError")
    ELSE IF bs.stack = <<>> THEN Fail([bs EXCEPT !.q = Tail(@)], "IndexError")
    ELSE Done([bs EXCEPT !.q = Tail(@), !.stack = Front(@)])

\* a lookup_state that skips the alias token and returns
lookup_state_skips(bs) == Done([bs EXCEPT !.q = Tail(@)])

\* StateModelBuilder.lookup_state
lookup_state(bs) == Fail(bs, "NotImplementedError")

\* lines 139-144 of assign_trans: the optional attribute, then add_transition
\* in the scope on top of the stack
assign_trans_add(bs, source, dest) ==
    LET has == bs.q # <<>> /\ Head(bs.q).kind = "TATTR"
        attr == IF has THEN Head(bs.q).val ELSE None
        bs1 == IF has THEN [bs EXCEPT !.q = Tail(@)] ELSE bs
    IN IF bs1.stack = <<>> THEN Fail(bs1, "IndexError")
       ELSE OnDiagram(bs1, add_transition(bs1.w, source, dest, Last(bs1.stack), attr))

\* StateModelBuilder.assign_trans
assign_trans(bs) ==
    IF bs.q = <<>> THEN Fail(bs, "IndexError")
    ELSE LET source == Head(bs.q).val
             bs1 == [bs EXCEPT !.q = Tail(@)]
         IN IF bs1.q = <<>> THEN Fail(bs1, "IndexError")
            ELSE IF Head(bs1.q).kind = "TDEST"
            THEN assign_trans_add([bs1 EXCEPT !.q = Tail(@)], source, Head(bs1.q).val)
            ELSE Fail(bs1, "AttributeError")

\* the update_dict of StateModelBuilder.__init__: bound methods of self
update_dict(self) ==
    [k \in {"STATE", "SALIAS", "SEND", "TSOURCE"} |->
        [self |-> self,
         fn |-> CASE k = "STATE" -> "assign_state"
                  [] k = "SALIAS" -> "lookup_state"
                  [] k = "SEND" -> "end_superstate"
                  [] k = "TSOURCE" -> "assign_trans"]]

\* calling a bound method
call(fn, bs) ==
    CASE fn = "assign_state" -> assign_state(bs)
      [] fn = "lookup_state" -> lookup_state(bs)
      [] fn = "end_superstate" -> end_superstate(bs)
      [] fn = "assign_trans" -> assign_trans(bs)

\* ModelBuilder.ignored_tokens
ignored_tokens == {"Text", "Error"}

----------------
(* Calls of the graph model's operations on a diagram (SpecApi) *)

\* arguments of the calls: P and Q are the names used as parents, so they
\* come into being as transition endpoints; 'X' is a byte string
ApiNames == {U("X"), U("Y"), B("X")}
ApiSources == {U("P"), U("X"), U("[*]")}
ApiDests == {U("Q"), U("Y"), U("[*]")}
ApiParents == {None, U("P"), U("Q")}
ApiTransParents == {None, U("Q")}
ApiAttrs == {None, U("a")}

NoFlat == [g |-> DiGraph, err |-> "", called |-> FALSE]

\* called records a handler call (fn, the builder whose parse made the call,
\* the builder the handler is bound to, that builder's deque at the call) or
\* a call of a diagram operation (fn and its arguments)
NoCall == [fn |-> "", by |-> 0, self |-> 0, q |-> <<>>, args |-> <<>>]

RECURSIVE SumLen(_)
SumLen(s) == IF s = <<>> THEN 0 ELSE Len(Head(s).attrs) + SumLen(Tail(s))

Within(w) ==
    /\ Len(w.obj) <= MaxStates
    /\ Len(w.dg.transitions) <= MaxTrans
    /\ SumLen(w.obj) + SumLen(w.dg.transitions) <= MaxAttrs

\* nothing constructed but an empty StateDiagram
Fresh ==
    /\ action_tokens = EmptyMap
    /\ q = [b \in Builders |-> <<>>]
    /\ superstate_stack = [b \in Builders |-> <<>>]
    /\ diagram = [b \in Builders |-> StateDiagram]
    /\ obj = [b \in Builders |-> <<>>]
    /\ pc = [b \in Builders |-> "none"]
    /\ actions_pending = [b \in Builders |-> 0]
    /\ raised = [b \in Builders |-> ""]
    /\ fed = 0
    /\ flat = NoFlat
    /\ called = NoCall

InitApi == Fresh

ApiCall(r) ==
    /\ ~flat.called
    /\ raised[1] = ""
    /\ Within(r.w)
    /\ diagram' = [diagram EXCEPT ![1] = r.w.dg]
    /\ obj' = [obj EXCEPT ![1] = r.w.obj]
    /\ raised' = [raised EXCEPT ![1] = r.err]
    /\ UNCHANGED <<action_tokens, q, superstate_stack, pc, actions_pending, fed,
                   flat, called>>

AddState ==
    \E n \in ApiNames, p \in ApiParents, a \in ApiAttrs :
        ApiCall(add_state(World(diagram[1], obj[1]), n, p, a))

AddTransition ==
    \E s \in ApiSources, d \in ApiDests, p \in ApiTransParents :
        ApiCall(add_transition(World(diagram[1], obj[1]), s, d, p, None))

\* a flatten_graph working on self's own node and edge structure
flatten_self_in_place(d, flat_graph) ==
    [d EXCEPT !.node = flat_graph.node, !.edge = flat_graph.edge]

\* line 135: subgraph (networkx 1.x) builds a new graph object, and lines
\* 144-150 add to and remove from that object: self keeps its own nodes and
\* edges whatever flat_graph has become
flatten_self(d, flat_graph) == d

\* line 140: the child Diagram of every superstate is flattened the same way
flatten_heap(o, ord) ==
    [i \in DOMAIN o |->
        IF o[i].num_substates > 0
        THEN [o[i] EXCEPT !.substates =
                  flatten_self(@, flatten_graph(o, @, ord, 2).g)]
        ELSE o[i]]

FlattenCall(ord, r) ==
    /\ fed < MaxFlattens
    /\ fed' = fed + 1
    /\ flat' = [g |-> r.g, err |-> r.err, called |-> TRUE]
    /\ diagram' = [diagram EXCEPT ![1] = flatten_self(@, r.g)]
    /\ obj' = [obj EXCEPT ![1] = flatten_heap(@, ord)]
    /\ called' = [fn |-> "flatten_graph", by |-> 0, self |-> 0, q |-> <<>>,
                  args |-> <<ord>>]
    /\ UNCHANGED <<action_tokens, q, superstate_stack, pc, actions_pending, raised>>

\* a repeated call visits the nodes in the order of the call before: the
\* dictionaries are filled with the same objects in the same sequence
FlattenGraph ==
    \E ord \in Perms(Supers(obj[1])) :
        /\ flat.called => ord = called.args[1]
        /\ FlattenCall(ord, flatten_graph(obj[1], diagram[1], ord, 1))

NextApi == AddState \/ AddTransition \/ FlattenGraph

\* declarations only: add_state called with names given as unicode or as
\* byte strings, the call and its outcome being recorded (SpecDecl)
DeclNames == {U("S"), B("S"), U("T"), B("T")}
DeclParents == {None, U("S")}
DeclAttrs == {None, U("a"), U("b")}

Declared(n, p, a, r) ==
    /\ fed < MaxCalls
    /\ fed' = fed + 1
    /\ diagram' = [diagram EXCEPT ![1] = r.w.dg]
    /\ obj' = [obj EXCEPT ![1] = r.w.obj]
    /\ raised' = [raised EXCEPT ![1] = r.err]
    /\ called' = [fn |-> "add_state", by |-> 0, self |-> 0, q |-> <<>>,
                  args |-> <<n, p, a>>]
    /\ UNCHANGED <<action_tokens, q, superstate_stack, pc, actions_pending, flat>>

Declare ==
    \E n \in DeclNames, p \in DeclParents, a \in DeclAttrs :
        Declared(n, p, a, add_state(World(diagram[1], obj[1]), n, p, a))

SpecDecl == InitApi /\ [][Declare]_vars

SpecApi == InitApi /\ [][NextApi]_vars

----------------------------------------------------------------------------
(* ModelBuilder.parse, one action per loop iteration (Spec, SpecTwo) *)

\* the token values a lexer run can yield (pygments yields unicode text)
Tokens ==
    {Tok("STATE", U("P")), Tok("STATE", U("X")), Tok("SALIAS", U("al")),
     Tok("SATTR", U("a")), Tok("SSTART", U("{")), Tok("SEND", U("}")),
     Tok("TSOURCE", U("X")), Tok("TDEST", U("Y")), Tok("TATTR", U("t")),
     Tok("Text", U(" "))}

ScopeTokens ==
    {Tok("STATE", U("P")), Tok("STATE", U("X")), Tok("SATTR", U("a")),
     Tok("SSTART", U("{")), Tok("SEND", U("}")), Tok("Text", U(" "))}

TwoTokens ==
    {Tok("STATE", U("P")), Tok("STATE", U("X")), Tok("SATTR", U("a")),
     Tok("SSTART", U("{")), Tok("Text", U(" "))}

Running(b) == pc[b] \in {"for", "while"}

\* StateModelBuilder.__init__ (with ModelBuilder.__init__)
Construct(b) ==
    /\ pc[b] = "none"
    /\ \A o \in Builders : ~Running(o)
    /\ action_tokens' = [k \in DOMAIN action_tokens \cup DOMAIN update_dict(b) |->
                            IF k \in DOMAIN update_dict(b) THEN update_dict(b)[k]
                            ELSE action_tokens[k]]
    /\ q' = [q EXCEPT ![b] = <<>>]
    /\ superstate_stack' = [superstate_stack EXCEPT ![b] = <<None>>]
    /\ diagram' = [diagram EXCEPT ![b] = StateDiagram]
    /\ obj' = [obj EXCEPT ![b] = <<>>]
    /\ pc' = [pc EXCEPT ![b] = "new"]
    /\ called' = NoCall
    /\ UNCHANGED <<actions_pending, raised, fed, flat>>

\* parse is entered: line 40
ParseCall(b) ==
    /\ pc[b] = "new"
    /\ \A o \in Builders : ~Running(o)
    /\ pc' = [pc EXCEPT ![b] = "for"]
    /\ actions_pending' = [actions_pending EXCEPT ![b] = 0]
    /\ called' = NoCall
    /\ UNCHANGED <<action_tokens, q, superstate_stack, diagram, obj, raised, fed, flat>>

\* lines 55-58 / 65-67: self.action_tokens[self.q[0][0]]() with qa the deques
\* and ap the count at that point; the handler found in the class dictionary
\* runs on the builder o it is bound to and ends as r
Invoked(b, o, qa, ap, r) ==
       /\ called' = [fn |-> action_tokens[Head(qa[b]).kind].fn, by |-> b,
                     self |-> o, q |-> qa[o], args |-> <<>>]
       /\ q' = [qa EXCEPT ![o] = r.bs.q]
       /\ superstate_stack' = [superstate_stack EXCEPT ![o] = r.bs.stack]
       /\ diagram' = [diagram EXCEPT ![o] = r.bs.w.dg]
       /\ obj' = [obj EXCEPT ![o] = r.bs.w.obj]
       /\ raised' = [raised EXCEPT ![b] = r.err]
       /\ IF r.err = ""
          THEN /\ actions_pending' = [actions_pending EXCEPT ![b] = ap - 1]
               /\ UNCHANGED pc
          ELSE /\ actions_pending' = [actions_pending EXCEPT ![b] = ap]
               /\ pc' = [pc EXCEPT ![b] = "raised"]

Bound(qa, o) == BState(qa[o], superstate_stack[o], World(diagram[o], obj[o]))

Invoke(b, qa, ap) ==
    Invoked(b, action_tokens[Head(qa[b]).kind].self, qa, ap,
            call(action_tokens[Head(qa[b]).kind].fn,
                 Bound(qa, action_tokens[Head(qa[b]).kind].self)))

\* a for loop that calls the head's handler as soon as one actionable token
\* is pending
FeedEager(b, tok) ==
    IF tok.kind \in ignored_tokens THEN UNCHANGED vars
    ELSE LET ap == IF tok.kind \in DOMAIN action_tokens
                   THEN actions_pending[b] + 1 ELSE actions_pending[b]
             qa == [q EXCEPT ![b] = Append(@, tok)]
         IN /\ fed < MaxTokens
            /\ fed' = fed + 1
            /\ UNCHANGED <<action_tokens, flat>>
            /\ IF ap > 0 /\ Head(qa[b]).kind \in DOMAIN action_tokens
               THEN Invoke(b, qa, ap)
               ELSE /\ q' = qa
                    /\ called' = NoCall
                    /\ actions_pending' = [actions_pending EXCEPT ![b] = ap]
                    /\ UNCHANGED <<superstate_stack, diagram, obj, pc, raised>>

\* one iteration of the for loop, lines 42-60, on a stream of at most max
\* buffered tokens
FeedUpTo(b, tok, max) ==
    IF tok.kind \in ignored_tokens THEN UNCHANGED vars
    ELSE LET ap == IF tok.kind \in DOMAIN action_tokens
                   THEN actions_pending[b] + 1 ELSE actions_pending[b]
             qa == [q EXCEPT ![b] = Append(@, tok)]
         IN /\ fed < max
            /\ fed' = fed + 1
            /\ UNCHANGED <<action_tokens, flat>>
            /\ IF ap > 1 /\ Head(qa[b]).kind \in DOMAIN action_tokens
               THEN Invoke(b, qa, ap)
               ELSE /\ q' = qa
                    /\ called' = NoCall
                    /\ actions_pending' = [actions_pending EXCEPT ![b] = ap]
                    /\ UNCHANGED <<superstate_stack, diagram, obj, pc, raised>>

Feed(b, tok) == FeedUpTo(b, tok, MaxTokens)

ParseToken(b) == pc[b] = "for" /\ \E tok \in Tokens : Feed(b, tok)

\* streams of state declarations and scopes only
ParseTokenScope(b) ==
    pc[b] = "for" /\ \E tok \in ScopeTokens : FeedUpTo(b, tok, MaxScopeTokens)

ParseTokenTwo(b) == pc[b] = "for" /\ \E tok \in TwoTokens : Feed(b, tok)

\* the token stream is exhausted: the for loop ends
StreamEnd(b) ==
    /\ pc[b] = "for"
    /\ pc' = [pc EXCEPT ![b] = "while"]
    /\ called' = NoCall
    /\ UNCHANGED <<action_tokens, q, superstate_stack, diagram, obj,
                   actions_pending, raised, fed, flat>>

\* one iteration of the while loop, lines 64-69
ParseFlush(b) ==
    /\ pc[b] = "while"
    /\ actions_pending[b] > 0
    /\ UNCHANGED <<action_tokens, fed, flat>>
    /\ IF q[b] = <<>>
       THEN /\ pc' = [pc EXCEPT ![b] = "raised"]
            /\ raised' = [raised EXCEPT ![b] = "IndexError"]
            /\ called' = NoCall
            /\ UNCHANGED <<q, superstate_stack, diagram, obj, actions_pending>>
       ELSE IF Head(q[b]).kind \in DOMAIN action_tokens
       THEN Invoke(b, q, actions_pending[b])
       ELSE \* str + tuple: the popped token cannot be concatenated
            /\ q' = [q EXCEPT ![b] = Tail(@)]
            /\ pc' = [pc EXCEPT ![b] = "raised"]
            /\ raised' = [raised EXCEPT ![b] = "TypeError"]
            /\ called' = NoCall
            /\ UNCHANGED <<superstate_stack, diagram, obj, actions_pending>>

\* line 72
ParseReturn(b) ==
    /\ pc[b] = "while"
    /\ actions_pending[b] = 0
    /\ pc' = [pc EXCEPT ![b] = "returned"]
    /\ called' = NoCall
    /\ UNCHANGED <<action_tokens, q, superstate_stack, diagram, obj,
                   actions_pending, raised, fed, flat>>

\* build_state_diagram: one builder, constructed, parses one stream
Init ==
    /\ action_tokens = update_dict(1)
    /\ q = [b \in Builders |-> <<>>]
    /\ superstate_stack = [b \in Builders |-> IF b = 1 THEN <<None>> ELSE <<>>]
    /\ diagram = [b \in Builders |-> StateDiagram]
    /\ obj = [b \in Builders |-> <<>>]
    /\ pc = [b \in Builders |-> IF b = 1 THEN "new" ELSE "none"]
    /\ actions_pending = [b \in Builders |-> 0]
    /\ raised = [b \in Builders |-> ""]
    /\ fed = 0
    /\ flat = NoFlat
    /\ called = NoCall

Next ==
    \/ ParseCall(1)
    \/ ParseToken(1)
    \/ StreamEnd(1)
    \/ ParseFlush(1)
    \/ ParseReturn(1)

Spec == Init /\ [][Next]_vars

NextScope ==
    \/ ParseCall(1)
    \/ ParseTokenScope(1)
    \/ StreamEnd(1)
    \/ ParseFlush(1)
    \/ ParseReturn(1)

SpecScope == Init /\ [][NextScope]_vars

\* two builder instances, constructed in either order
NextTwo ==
    \E b \in Builders :
        \/ Construct(b)
        \/ ParseCall(b)
        \/ ParseTokenTwo(b)
        \/ StreamEnd(b)
        \/ ParseFlush(b)
        \/ ParseReturn(b)

SpecTwo == Fresh /\ [][NextTwo]_vars

----------------------------------------------------------------------------
(* Properties *)

Objs(b) == DOMAIN obj[b]
Named(b, t) == {i \in Objs(b) : Text(obj[b][i].name) = t}
TopLevel(b) == Range(diagram[b].top_level)
Flattened == flat.called /\ flat.err = ""

\* C5: flattening a diagram with the top-level transition A -> B, B being a
\* superstate whose child Diagram holds exactly the internal transition
\* X -> Y, yields the edges A -> X, X -> Y and Y -> D for every outgoing
\* destination D of B, keeps X and Y and drops B - whether or not X and Y
\* were declared inside B before the transition.
C5_FlattenStitchesSuperstate ==
    Flattened =>
        \A a, s, x, y \in Objs(1) :
            (/\ a # s /\ x # y
             /\ {a, s} \subseteq TopLevel(1)
             /\ <<a, s>> \in DOMAIN diagram[1].edge
             /\ DOMAIN obj[1][s].substates.edge = {<<x, y>>})
            => /\ {<<a, x>>, <<x, y>>} \subseteq DOMAIN flat.g.edge
               /\ \A d \in Range(obj[1][s].destination) \ {s} :
                      <<y, d>> \in DOMAIN flat.g.edge
               /\ {x, y} \subseteq flat.g.node
               /\ s \notin flat.g.node

\* C6: the graph flatten_graph returns holds no superstate, whatever the
\* order in which the states are visited.
C6_FlatGraphHasNoSuperstate ==
    Flattened => \A n \in flat.g.node : obj[1][n].num_substates = 0

\* the edge relation of the scope a state lives in: the child graph of its
\* parent, or the root graph
ScopeEdges(b, i) ==
    IF obj[b][i].parent = None THEN diagram[b].edge
    ELSE obj[b][get_state(World(diagram[b], obj[b]), obj[b][i].parent)].substates.edge

InScope(b, i) ==
    obj[b][i].parent = None
    \/ get_state(World(diagram[b], obj[b]), obj[b][i].parent) # 0

\* C7: a state is a start state iff no transition declared in its own scope
\* has it as destination, and an end state iff none has it as source.
C7_StartEndAreLocal ==
    \A i \in Objs(1) :
        InScope(1, i) =>
            /\ is_start_state(obj[1][i])
                   <=> ~\E e \in DOMAIN ScopeEdges(1, i) : e[2] = i
            /\ is_end_state(obj[1][i])
                   <=> ~\E e \in DOMAIN ScopeEdges(1, i) : e[1] = i

\* C8: at most one State is named START and at most one END; all
\* transitions leaving the start marker have the one START object as source
\* and all transitions entering the end marker the one END object as
\* destination.
C8_SentinelsShared ==
    /\ Cardinality(Named(1, "START")) <= 1
    /\ Cardinality(Named(1, "END")) <= 1
    /\ \A i, j \in DOMAIN diagram[1].transitions :
          LET t == diagram[1].transitions[i]
              u == diagram[1].transitions[j]
          IN /\ (t.source[1] \in Named(1, "START") /\ u.source[1] \in Named(1, "START"))
                    => t.source = u.source
             /\ (t.dest[1] \in Named(1, "END") /\ u.dest[1] \in Named(1, "END"))
                    => t.dest = u.dest

\* two transitions from the start marker and two into the end marker exist
C8_Witness ==
    \E i, j \in DOMAIN diagram[1].transitions :
        /\ i # j
        /\ diagram[1].transitions[i].source[1] \in Named(1, "START")
        /\ diagram[1].transitions[j].source[1] \in Named(1, "START")
        /\ diagram[1].transitions[i].dest[1] \in Named(1, "END")
        /\ diagram[1].transitions[j].dest[1] \in Named(1, "END")

\* C10: the scope whose edge relation holds a transition's edge is the scope
\* whose transitions list holds the Transition: a transition declared inside
\* superstate P is in the list of P's child Diagram and not in the root's.
C10_TransitionListedInItsScope ==
    \A p \in Objs(1) :
        \A e \in DOMAIN obj[1][p].substates.edge :
            /\ \E t \in Range(obj[1][p].substates.transitions) :
                   t.source = <<e[1]>> /\ t.dest = <<e[2]>>
            /\ obj[1][p].substates.edge[e] \notin DOMAIN diagram[1].transitions

\* C1: in the end-of-stream flush, a buffer head that is not actionable is
\* dropped without any error while actionable tokens are pending, and the
\* flush goes on.
C1_FlushDropsNonActionableHead ==
    [][\A b \in Builders :
          (/\ pc[b] = "while" /\ actions_pending[b] > 0 /\ q[b] # <<>>
           /\ Head(q[b]).kind \notin DOMAIN action_tokens)
          => /\ q'[b] = Tail(q[b])
             /\ pc'[b] = "while" /\ raised'[b] = ""
             /\ diagram'[b] = diagram[b] /\ obj'[b] = obj[b]]_vars

\* the deque at a call of assign_trans holds no destination behind the source
NoDestination(qq) == Len(qq) < 2 \/ qq[2].kind # "TDEST"

\* C2: assign_trans called on a source that no destination token follows
\* (another token follows, or none) aborts parse with AttributeError and
\* records no Transition and no edge.
C2_MalformedTransitionAborts ==
    [][(called'.fn = "assign_trans" /\ NoDestination(called'.q))
          => /\ pc'[called'.by] = "raised"
             /\ raised'[called'.by] = "AttributeError"
             /\ diagram' = diagram /\ obj' = obj]_vars

\* the scope a call of assign_state declares its state in: the top of the
\* stack at the call (the called state is on top afterwards if it opened a
\* superstate itself)
ScopeAtCall(b) ==
    IF called.q[2].kind = "SSTART"
    THEN superstate_stack[b][Len(superstate_stack[b]) - 1]
    ELSE Last(superstate_stack[b])

IsSubstate(b, name, scope) ==
    LET w == World(diagram[b], obj[b])
    IN /\ get_state(w, name) # 0 /\ get_state(w, scope) # 0
       /\ get_state(w, name) \in obj[b][get_state(w, scope)].substates.node
       /\ get_state(w, name) \in Range(obj[b][get_state(w, scope)].substates.top_level)

\* C3: a state name committed while superstate P is the most recently
\* opened, not yet closed superstate is a substate of P afterwards, also when
\* the name was introduced earlier.  (A superstate named inside itself is
\* left aside.)
C3_DeclaredInSuperstateIsSubstate ==
    (/\ called.fn = "assign_state" /\ raised[called.by] = ""
     /\ ScopeAtCall(called.self) # None
     /\ Text(ScopeAtCall(called.self)) # Text(called.q[1].val))
    => IsSubstate(called.self, called.q[1].val, ScopeAtCall(called.self))

NamedIn(o, t) == {i \in DOMAIN o : Text(o[i].name) = t}
Occurs(seq, i) == Cardinality({k \in DOMAIN seq : seq[k] = i})
RECURSIVE SumOccurs(_, _)
SumOccurs(o, i) ==
    IF o = <<>> THEN 0
    ELSE Occurs(Head(o).substates.top_level, i) + SumOccurs(Tail(o), i)
Listed(d, o, i) == Occurs(d.top_level, i) + SumOccurs(o, i)
AttrsOf(d, o, t) == IF t \in DOMAIN d.state_names THEN o[d.state_names[t]].attrs ELSE <<>>

\* the call declares name n in an existing scope p, the scope n already
\* lives in if n is declared already
DeclaresInScope(d, o, n, p) ==
    /\ p = None \/ Text(p) \in DOMAIN d.state_names
    /\ Text(n) \in DOMAIN d.state_names => o[d.state_names[Text(n)]].parent = p

\* C4: a declaration of a state name, the first or a repeated one in the
\* same scope, leaves exactly one State registered under the name and
\* exactly one entry for it in the scope lists, and appends the attribute it
\* supplies to those the State has.
C4_RedeclarationKeepsOneState ==
    [][(called'.fn = "add_state"
        /\ DeclaresInScope(diagram[1], obj[1], called'.args[1], called'.args[2]))
       => /\ Text(called'.args[1]) \in DOMAIN diagram'[1].state_names
          /\ Cardinality(NamedIn(obj'[1], Text(called'.args[1]))) = 1
          /\ Listed(diagram'[1], obj'[1],
                    diagram'[1].state_names[Text(called'.args[1])]) = 1
          /\ AttrsOf(diagram'[1], obj'[1], Text(called'.args[1])) =
                 IF called'.args[3] = None
                 THEN AttrsOf(diagram[1], obj[1], Text(called'.args[1]))
                 ELSE Append(AttrsOf(diagram[1], obj[1], Text(called'.args[1])),
                             called'.args[3])]_vars

\* C9: while builder b parses, only handlers bound to b are called and no
\* other builder's deque, scope stack or diagram changes.
C9_ParseTouchesOnlyItsBuilder ==
    [][\A b \in Builders :
          Running(b) =>
              /\ (called'.fn # "" => called'.self = b)
              /\ \A o \in Builders \ {b} :
                     /\ q'[o] = q[o]
                     /\ superstate_stack'[o] = superstate_stack[o]
                     /\ diagram'[o] = diagram[o] /\ obj'[o] = obj[o]]_vars

C12_AliasHandlerAborts ==
    [][\A b \in Builders :
          /\ (/\ called'.fn # "" /\ called'.by = b /\ called'.self = b
              /\ Head(called'.q).kind = "SALIAS")
             => /\ called'.fn = "lookup_state"
                /\ pc'[b] = "raised" /\ raised'[b] = "NotImplementedError"
                /\ diagram' = diagram /\ obj' = obj
          /\ pc[b] = "raised"
             => /\ pc'[b] = "raised" /\ q'[b] = q[b]
                /\ diagram'[b] = diagram[b] /\ obj'[b] = obj[b]]_vars

\* the alias handler was called in the flush, after a state had been built
C12_Witness ==
    /\ called.fn = "lookup_state" /\ called.by = 1
    /\ pc[1] = "raised" /\ raised[1] = "NotImplementedError"
    /\ Len(q[1]) = 1 /\ obj[1] # <<>>

\* the name token at a call of assign_state is not followed by a scope-open
\* token: another token follows, or none
PlainState(qq) == Len(qq) < 2 \/ qq[2].kind # "SSTART"

\* C13: assign_state called on a state name that no scope-open token
\* follows, the name being the last token of the stream included, returns
\* normally with the state registered and the scope stack as it was.
C13_PlainStateIsAdded ==
    [][\A b \in Builders :
          (/\ called'.fn = "assign_state" /\ called'.by = b /\ called'.self = b
           /\ superstate_stack[b] # <<>>
           /\ PlainState(called'.q))
          => /\ pc'[b] # "raised" /\ raised'[b] = ""
             /\ Text(called'.q[1].val) \in DOMAIN diagram'[b].state_names
             /\ superstate_stack'[b] = superstate_stack[b]]_vars

\* the number of tokens of a deque whose kind is actionable
Actionable(qq) ==
    Cardinality({i \in DOMAIN qq : qq[i].kind \in DOMAIN action_tokens})

\* C14: after every step of a running parse the pending-action counter is
\* the number of actionable tokens in the parsing builder's deque, and a
\* handler call that returns normally has removed exactly one actionable
\* token from the deque it worked on.
C14_PendingCountsActionable ==
    [][\A b \in Builders :
          /\ pc'[b] \in {"for", "while"}
             => actions_pending'[b] = Actionable(q'[b])
          /\ (called'.fn # "" /\ called'.by = b /\ raised'[b] = "")
             => Actionable(q'[called'.self]) = Actionable(called'.q) - 1]_vars

\* a handler has returned normally into the for loop, one actionable token
\* and tokens that are not actionable being in the deque
C14_Witness ==
    /\ called.fn # "" /\ called.by = 1 /\ called.self = 1
    /\ raised[1] = "" /\ pc[1] = "for"
    /\ actions_pending[1] = 1 /\ Len(q[1]) > 1

\* qq is what is left of deque qa after some tokens were popped from its left
Suffix(qq, qa) ==
    \E k \in 0..Len(qa) : qq = SubSeq(qa, k + 1, Len(qa))

\* C15: a handler called from the for loop finds the deque as it was before
\* the token just read, with that token appended; the head is actionable,
\* the handler is the head's, a further actionable token lies behind the
\* head, and the handler takes tokens from the left end only, so that the
\* handlers run in the stream order of their tokens.
C15_HandlerSeesNextActionable ==
    [][\A b \in Builders :
          (pc[b] = "for" /\ called'.fn # "" /\ called'.by = b)
          => /\ called'.self = b
             /\ Front(called'.q) = q[b]
             /\ Head(called'.q).kind \in DOMAIN action_tokens
             /\ called'.fn = action_tokens[Head(called'.q).kind].fn
             /\ Actionable(Tail(called'.q)) >= 1
             /\ Last(called'.q).kind \in DOMAIN action_tokens
             /\ Suffix(q'[b], called'.q)]_vars

\* assign_trans ran in the for loop with source, destination, attribute and
\* the next actionable token in the deque
C15_Witness ==
    /\ called.fn = "assign_trans" /\ called.by = 1 /\ pc[1] = "for"
    /\ Len(called.q) = 4 /\ called.q[3].kind = "TATTR"
    /\ Len(q[1]) = 1 /\ Len(diagram[1].transitions) = 1

\* the State objects that are endpoints of the edges of graph g
Endpoints(g) == {e[1] : e \in DOMAIN g.edge} \cup {e[2] : e \in DOMAIN g.edge}

\* C16: a State that comes into being as the endpoint of a transition
\* declared inside superstate P (an edge new in P's child Diagram) is a
\* substate of P: a node and a listed state of P's child Diagram, counted in
\* P's num_substates, and not a top-level state of the root Diagram.
C16_EndpointCreatedInScope ==
    [][\A p \in DOMAIN obj[1] :
          \A e \in Endpoints(obj'[1][p].substates) \ DOMAIN obj[1] :
              /\ e \in obj'[1][p].substates.node
              /\ e \in Range(obj'[1][p].substates.top_level)
              /\ obj'[1][p].num_substates > 0
              /\ e \notin Range(diagram'[1].top_level)]_vars

\* where add_state is to put a new State: the state list of parent's child
\* Diagram, or the top-level list
ScopeList(d, o, p) ==
    IF p = None THEN d.top_level ELSE o[d.state_names[Text(p)]].substates.top_level

\* C17: add_state called with a name that is not registered, given as a
\* unicode or as a byte string, under no parent or a registered one, does
\* not raise, creates exactly one State, registers it under the name and
\* appends it to the state list of its scope; check_state_exists is true of
\* a name exactly if the name is registered.
C17_AddStateCreatesUnregistered ==
    [][(/\ called'.fn = "add_state"
        /\ Text(called'.args[1]) \notin DOMAIN diagram[1].state_names
        /\ called'.args[2] = None
              \/ Text(called'.args[2]) \in DOMAIN diagram[1].state_names)
       => /\ ~check_state_exists(World(diagram[1], obj[1]), called'.args[1])
          /\ raised'[1] = ""
          /\ Len(obj'[1]) = Len(obj[1]) + 1
          /\ Text(called'.args[1]) \in DOMAIN diagram'[1].state_names
          /\ diagram'[1].state_names[Text(called'.args[1])] = Len(obj'[1])
          /\ ScopeList(diagram'[1], obj'[1], called'.args[2]) =
                 Append(ScopeList(diagram[1], obj[1], called'.args[2]),
                        Len(obj'[1]))]_vars

\* the sentinel None is the bottom entry of builder b's scope stack
OnSentinel(st) == st # <<>> /\ st[1] = None

\* a scope-close is committed while no superstate is open
UnmatchedClose(st, c) == c.fn = "end_superstate" /\ Len(st) = 1

\* the name is that of a state declared inside a superstate that has been
\* closed: its parent is not on builder b's scope stack
InClosedScope(b, name) ==
    /\ Text(name) \in DOMAIN diagram[b].state_names
    /\ obj[b][diagram[b].state_names[Text(name)]].parent
           \notin Range(superstate_stack[b])

\* C18: as long as no scope-close is committed without an open superstate,
\* the scope stack keeps the sentinel at its bottom; a scope-close pops
\* exactly the top entry, a state name followed by a scope-open pushes that
\* name, no other handler changes the stack (so its depth is 1 + openings -
\* closes), and a state declared by a plain state name is placed in the
\* scope on top of the stack: a new state has the top entry for its parent,
\* and a name declared before inside a superstate closed since is listed in
\* the scope of the top entry.
C18_ScopeStackDiscipline ==
    [][(OnSentinel(superstate_stack[1])
        /\ ~UnmatchedClose(superstate_stack[1], called'))
       => /\ OnSentinel(superstate_stack'[1])
          /\ (called'.fn = "end_superstate" /\ raised'[1] = "")
                => superstate_stack'[1] = Front(superstate_stack[1])
          /\ (called'.fn = "assign_state" /\ raised'[1] = ""
                /\ called'.q[2].kind = "SSTART")
                => superstate_stack'[1] =
                       Append(superstate_stack[1], called'.q[1].val)
          /\ (called'.fn = "assign_state" /\ raised'[1] = ""
                /\ called'.q[2].kind # "SSTART")
                => /\ superstate_stack'[1] = superstate_stack[1]
                   /\ Len(obj'[1]) > Len(obj[1])
                         => Last(obj'[1]).parent = Last(superstate_stack[1])
                   /\ InClosedScope(1, called'.q[1].val)
                         => diagram[1].state_names[Text(called'.q[1].val)] \in
                               Range(ScopeList(diagram'[1], obj'[1],
                                               Last(superstate_stack[1])))
          /\ called'.fn \notin {"end_superstate", "assign_state"}
                => superstate_stack'[1] = superstate_stack[1]]_vars

\* the list named field (source or destination) is empty for state s or for
\* one of the superstates enclosing it
RECURSIVE EmptyUpwards(_, _, _, _, _)
EmptyUpwards(d, o, s, field, depth) ==
    \/ Len(o[s][field]) = 0
    \/ /\ depth < Len(o)
       /\ o[s].parent # None
       /\ Text(o[s].parent) \in DOMAIN d.state_names
       /\ EmptyUpwards(d, o, d.state_names[Text(o[s].parent)], field, depth + 1)

\* C19: for every state nested under a superstate, is_start_state and
\* is_end_state with global_scope=True return a boolean, true exactly if the
\* source (destination) list of the state or of one of its enclosing
\* superstates is empty.
C19_GlobalStartEndInherited ==
    \A s \in DOMAIN obj[1] :
        obj[1][s].parent # None
        => /\ is_start_state_global(obj[1][s]).err = ""
           /\ is_start_state_global(obj[1][s]).val
                 = EmptyUpwards(diagram[1], obj[1], s, "source", 1)
           /\ is_end_state_global(obj[1][s]).err = ""
           /\ is_end_state_global(obj[1][s]).val
                 = EmptyUpwards(diagram[1], obj[1], s, "destination", 1)

====
